---- MODULE Spec2Model ----
(***************************************************************************)
(* Model of package nfc (dev/nfc/nfc.go): the re-exported libnfc constant  *)
(* groups, the Error type with its message table, the global library       *)
(* context, and the device handle contract the package wraps.              *)
(***************************************************************************)
EXTENDS Integers, Sequences, FiniteSets, TLC

VARIABLES
    errorMessages,  \* var errorMessages map[int]string
    theContext,     \* var theContext *context
    last,           \* the latest Error(code).Error() call and what it returned
    memo,           \* an earlier Error(code).Error() call, kept for comparison
    dev,            \* state of every device handle
    devCtx,         \* the context pointer each device-open call acquired
    lastOp,         \* the latest device operation and the code it returned
    modulation      \* a value of type Modulation held by the caller

vars == <<errorMessages, theContext, last, memo, dev, devCtx, lastOp, modulation>>

----------------------------------------------------------------------------
(* Bounds of the model.                                                    *)

\* every code of -MaxNeg..MaxPos is passed to Error(), besides the declared ones
MaxNeg == 31
MaxPos == 12
\* number of device handles the caller may open
MaxDevices == 2

----------------------------------------------------------------------------
(* Constant groups.  Go's iota is the index of the constant specification  *)
(* within its const block, counted from 0; a specification without an      *)
(* expression repeats the expression of the first one.                     *)

IotaOf(decls, name) == (CHOOSE i \in 1..Len(decls) : decls[i] = name) - 1

PropertyDecls ==
    << "TIMEOUT_COMMAND", "TIMEOUT_ATR", "TIMEOUT_COM", "HANDLE_CRC",
       "HANDLE_PARITY", "ACTIVATE_FIELD", "ACTIVATE_CRYPTO1", "INFINITE_SELECT",
       "ACCEPT_INVALID_FRAMES", "ACCEPT_MULTIPLE_FRAMES", "AUTO_ISO14443_4",
       "EASY_FRAMING", "FORCE_ISO14443_A", "FORCE_ISO14443_B", "FORCE_SPEED_106" >>

\* a first specification written "= 0": every later one repeats 0
PropertyExprLiteral(iota) == 0

\* TIMEOUT_COMMAND = iota
PropertyExpr(iota) == iota

TIMEOUT_COMMAND        == PropertyExpr(IotaOf(PropertyDecls, "TIMEOUT_COMMAND"))
TIMEOUT_ATR            == PropertyExpr(IotaOf(PropertyDecls, "TIMEOUT_ATR"))
TIMEOUT_COM            == PropertyExpr(IotaOf(PropertyDecls, "TIMEOUT_COM"))
HANDLE_CRC             == PropertyExpr(IotaOf(PropertyDecls, "HANDLE_CRC"))
HANDLE_PARITY          == PropertyExpr(IotaOf(PropertyDecls, "HANDLE_PARITY"))
ACTIVATE_FIELD         == PropertyExpr(IotaOf(PropertyDecls, "ACTIVATE_FIELD"))
ACTIVATE_CRYPTO1       == PropertyExpr(IotaOf(PropertyDecls, "ACTIVATE_CRYPTO1"))
INFINITE_SELECT        == PropertyExpr(IotaOf(PropertyDecls, "INFINITE_SELECT"))
ACCEPT_INVALID_FRAMES  == PropertyExpr(IotaOf(PropertyDecls, "ACCEPT_INVALID_FRAMES"))
ACCEPT_MULTIPLE_FRAMES == PropertyExpr(IotaOf(PropertyDecls, "ACCEPT_MULTIPLE_FRAMES"))
AUTO_ISO14443_4        == PropertyExpr(IotaOf(PropertyDecls, "AUTO_ISO14443_4"))
EASY_FRAMING           == PropertyExpr(IotaOf(PropertyDecls, "EASY_FRAMING"))
FORCE_ISO14443_A       == PropertyExpr(IotaOf(PropertyDecls, "FORCE_ISO14443_A"))
FORCE_ISO14443_B       == PropertyExpr(IotaOf(PropertyDecls, "FORCE_ISO14443_B"))
FORCE_SPEED_106        == PropertyExpr(IotaOf(PropertyDecls, "FORCE_SPEED_106"))

Properties ==
    { TIMEOUT_COMMAND, TIMEOUT_ATR, TIMEOUT_COM, HANDLE_CRC, HANDLE_PARITY,
      ACTIVATE_FIELD, ACTIVATE_CRYPTO1, INFINITE_SELECT, ACCEPT_INVALID_FRAMES,
      ACCEPT_MULTIPLE_FRAMES, AUTO_ISO14443_4, EASY_FRAMING, FORCE_ISO14443_A,
      FORCE_ISO14443_B, FORCE_SPEED_106 }

ModulationDecls ==
    << "ISO14443A", "JEWEL", "ISO14443B", "ISO14443BI", "ISO14443B2SR",
       "ISO14443B2CT", "FELICA", "DEP" >>

\* a first specification written "= iota", without the "+ 1"
ModulationExprFromZero(iota) == iota

\* ISO14443A = iota + 1
ModulationExpr(iota) == iota + 1

ISO14443A    == ModulationExpr(IotaOf(ModulationDecls, "ISO14443A"))
JEWEL        == ModulationExpr(IotaOf(ModulationDecls, "JEWEL"))
ISO14443B    == ModulationExpr(IotaOf(ModulationDecls, "ISO14443B"))
ISO14443BI   == ModulationExpr(IotaOf(ModulationDecls, "ISO14443BI"))
ISO14443B2SR == ModulationExpr(IotaOf(ModulationDecls, "ISO14443B2SR"))
ISO14443B2CT == ModulationExpr(IotaOf(ModulationDecls, "ISO14443B2CT"))
FELICA       == ModulationExpr(IotaOf(ModulationDecls, "FELICA"))
DEP          == ModulationExpr(IotaOf(ModulationDecls, "DEP"))

ModulationTypes ==
    { ISO14443A, JEWEL, ISO14443B, ISO14443BI, ISO14443B2SR, ISO14443B2CT,
      FELICA, DEP }

BaudRateDecls == << "NBR_106", "NBR_212", "NBR_424", "NBR_847" >>

\* NBR_106 = iota + 1
BaudRateExpr(iota) == iota + 1

NBR_106 == BaudRateExpr(IotaOf(BaudRateDecls, "NBR_106"))
NBR_212 == BaudRateExpr(IotaOf(BaudRateDecls, "NBR_212"))
NBR_424 == BaudRateExpr(IotaOf(BaudRateDecls, "NBR_424"))
NBR_847 == BaudRateExpr(IotaOf(BaudRateDecls, "NBR_847"))

BaudRates == { NBR_106, NBR_212, NBR_424, NBR_847 }

ModeDecls == << "TARGET", "INITIATOR" >>

\* TARGET = iota
ModeExpr(iota) == iota

TARGET    == ModeExpr(IotaOf(ModeDecls, "TARGET"))
INITIATOR == ModeExpr(IotaOf(ModeDecls, "INITIATOR"))

\* type Modulation struct { Type int; BaudRate int }: the zero value
ModulationZero == [Type |-> 0, BaudRate |-> 0]

----------------------------------------------------------------------------
(* Error codes.                                                            *)

SUCCESS      == 0
EIO          == -1
EINVARG      == -2
EDEVNOTSUPP  == -3
ENOTSUCHDEV  == -4
EOVFLOW      == -5
ETIMEOUT     == -6
EOPABORTED   == -7
ENOTIMPL     == -8
\* the run -1..-8 continued by one instead of the jump to -10
ETGRELEASEDContiguous == ENOTIMPL - 1
ETGRELEASED  == -10
ERFTRANS     == -20
EMFCAUTHFAIL == -30
ESOFT        == -80
ECHIP        == -90

\* the failure codes the const block declares, in declaration order
DeclaredFailureCodes ==
    << EIO, EINVARG, EDEVNOTSUPP, ENOTSUCHDEV, EOVFLOW, ETIMEOUT, EOPABORTED,
       ENOTIMPL, ETGRELEASED, ERFTRANS, EMFCAUTHFAIL, ESOFT, ECHIP >>

\* the composite literal of errorMessages, without its SUCCESS entry
errorMessagesNoSuccess ==
    [k \in { EIO, EINVARG, EDEVNOTSUPP, ENOTSUCHDEV, EOVFLOW, ETIMEOUT,
             EOPABORTED, ENOTIMPL, ETGRELEASED, EMFCAUTHFAIL, ERFTRANS, ECHIP } |->
        CASE k = EIO          -> "Input / Output Error"
          [] k = EINVARG      -> "Invalid argument(s)"
          [] k = EDEVNOTSUPP  -> "Not Supported by Device"
          [] k = ENOTSUCHDEV  -> "No Such Device"
          [] k = EOVFLOW      -> "Buffer Overflow"
          [] k = ETIMEOUT     -> "Timeout"
          [] k = EOPABORTED   -> "Operation Aborted"
          [] k = ENOTIMPL     -> "Not (yet) Implemented"
          [] k = ETGRELEASED  -> "Target Released"
          [] k = EMFCAUTHFAIL -> "Mifare Authentication Failed"
          [] k = ERFTRANS     -> "RF Transmission Error"
          [] k = ECHIP        -> "Device's Internal Chip Error"]

\* the composite literal of errorMessages with an ESOFT entry left blank
errorMessagesBlankEntry ==
    [k \in { SUCCESS, EIO, EINVARG, EDEVNOTSUPP, ENOTSUCHDEV, EOVFLOW, ETIMEOUT,
             EOPABORTED, ENOTIMPL, ETGRELEASED, EMFCAUTHFAIL, ERFTRANS, ESOFT,
             ECHIP } |->
        CASE k = SUCCESS      -> "Success"
          [] k = EIO          -> "Input / Output Error"
          [] k = EINVARG      -> "Invalid argument(s)"
          [] k = EDEVNOTSUPP  -> "Not Supported by Device"
          [] k = ENOTSUCHDEV  -> "No Such Device"
          [] k = EOVFLOW      -> "Buffer Overflow"
          [] k = ETIMEOUT     -> "Timeout"
          [] k = EOPABORTED   -> "Operation Aborted"
          [] k = ENOTIMPL     -> "Not (yet) Implemented"
          [] k = ETGRELEASED  -> "Target Released"
          [] k = EMFCAUTHFAIL -> "Mifare Authentication Failed"
          [] k = ERFTRANS     -> "RF Transmission Error"
          [] k = ESOFT        -> ""
          [] k = ECHIP        -> "Device's Internal Chip Error"]

\* var errorMessages = map[int]string{ ... }: the composite literal
errorMessagesInit ==
    [k \in { SUCCESS, EIO, EINVARG, EDEVNOTSUPP, ENOTSUCHDEV, EOVFLOW, ETIMEOUT,
             EOPABORTED, ENOTIMPL, ETGRELEASED, EMFCAUTHFAIL, ERFTRANS, ECHIP } |->
        CASE k = SUCCESS      -> "Success"
          [] k = EIO          -> "Input / Output Error"
          [] k = EINVARG      -> "Invalid argument(s)"
          [] k = EDEVNOTSUPP  -> "Not Supported by Device"
          [] k = ENOTSUCHDEV  -> "No Such Device"
          [] k = EOVFLOW      -> "Buffer Overflow"
          [] k = ETIMEOUT     -> "Timeout"
          [] k = EOPABORTED   -> "Operation Aborted"
          [] k = ENOTIMPL     -> "Not (yet) Implemented"
          [] k = ETGRELEASED  -> "Target Released"
          [] k = EMFCAUTHFAIL -> "Mifare Authentication Failed"
          [] k = ERFTRANS     -> "RF Transmission Error"
          [] k = ECHIP        -> "Device's Internal Chip Error"]

----------------------------------------------------------------------------
(* Error.Error().                                                          *)

Digit(d) ==
    CASE d = 0 -> "0" [] d = 1 -> "1" [] d = 2 -> "2" [] d = 3 -> "3"
      [] d = 4 -> "4" [] d = 5 -> "5" [] d = 6 -> "6" [] d = 7 -> "7"
      [] d = 8 -> "8" [] d = 9 -> "9"

RECURSIVE FormatUint(_)
FormatUint(n) ==
    IF n < 10 THEN Digit(n) ELSE FormatUint(n \div 10) \o Digit(n % 10)

\* the verb %u in place of %d: the magnitude without its sign
FormatUnsigned(n) == IF n < 0 THEN FormatUint(-n) ELSE FormatUint(n)

\* the verb %d of fmt.Sprintf on an int
FormatInt(n) == IF n < 0 THEN "-" \o FormatUint(-n) ELSE FormatUint(n)

\* fmt.Sprintf("Error %d", int(e))
SprintfError(n) == "Error " \o FormatInt(n)

\* m[k] on a map[int]string: the zero value "" when k is no key; no insertion
MapIndex(m, k) == IF k \in DOMAIN m THEN m[k] ELSE ""

\* func (e Error) Error() string, reading the table m
ErrorString(m, e) ==
    IF MapIndex(m, e) = "" THEN SprintfError(e) ELSE MapIndex(m, e)

\* the integers Error() is called on
Codes ==
    ((0 - MaxNeg)..MaxPos) \cup {-999, 42}
        \cup {SUCCESS} \cup {DeclaredFailureCodes[i] : i \in 1..Len(DeclaredFailureCodes)}

NoCall == [called |-> FALSE, code |-> 0, result |-> ""]

NoMemo == [called |-> FALSE, code |-> 0, result |-> "", between |-> FALSE]

\* the string the caller kept: replaced when keep, else marked once another code
\* has been looked up since
Remember(e, r, keep) ==
    IF keep
    THEN [called |-> TRUE, code |-> e, result |-> r, between |-> FALSE]
    ELSE [memo EXCEPT !.between = @ \/ (memo.called /\ e # memo.code)]

\* a lookup that stores the string it generated back into the table
ErrorCallCaching(e, keep) ==
    /\ last' = [called |-> TRUE, code |-> e, result |-> ErrorString(errorMessages, e)]
    /\ memo' = Remember(e, ErrorString(errorMessages, e), keep)
    /\ errorMessages' =
          [k \in DOMAIN errorMessages \cup {e} |-> ErrorString(errorMessages, k)]
    /\ UNCHANGED <<theContext, dev, devCtx, lastOp, modulation>>

\* one call Error(e).Error(); keep says whether the caller holds on to the string
ErrorCall(e, keep) ==
    /\ last' = [called |-> TRUE, code |-> e, result |-> ErrorString(errorMessages, e)]
    /\ memo' = Remember(e, ErrorString(errorMessages, e), keep)
    /\ UNCHANGED <<errorMessages, theContext, dev, devCtx, lastOp, modulation>>

Describe == \E e \in Codes, keep \in BOOLEAN : ErrorCall(e, keep)

----------------------------------------------------------------------------
(* The global library context.                                             *)

NilPtr == "nil"

\* a declaration without its initializer: var theContext *context
theContextUninitialized == NilPtr

\* var theContext *context = &context{}: the one allocation, at package init
theContextInit == "&context{}"

----------------------------------------------------------------------------
(* Device handles: Open, SetPropertyInt, SetPropertyBool, Close.           *)

Handles == 1..MaxDevices

\* what the native layer may answer to a forwarded call
NativeResults == {SUCCESS, EIO}

NoOp == [op |-> "none", handle |-> 0, prop |-> 0, rc |-> SUCCESS]

\* a closed handle still forwarded to the native layer
ClosedResultForwarded(native) == native

\* the code an operation on a closed handle fails with
ClosedResult(native) == ENOTSUCHDEV

\* Open, first half: the call acquires the process-wide context
OpenBegin(h) ==
    /\ dev[h] = "unused"
    /\ dev' = [dev EXCEPT ![h] = "opening"]
    /\ devCtx' = [devCtx EXCEPT ![h] = theContext]
    /\ UNCHANGED <<errorMessages, theContext, last, memo, lastOp, modulation>>

\* Open, second half: the native layer opens the connection or reports a code
OpenEnd(h, native) ==
    /\ dev[h] = "opening"
    /\ LET rc == IF devCtx[h] = NilPtr THEN EIO ELSE native
       IN  /\ dev' = [dev EXCEPT ![h] = IF rc = SUCCESS THEN "open" ELSE "failed"]
           /\ lastOp' = [op |-> "Open", handle |-> h, prop |-> 0, rc |-> rc]
    /\ UNCHANGED <<errorMessages, theContext, last, memo, devCtx, modulation>>

\* SetPropertyInt / SetPropertyBool: forwarded verbatim while the handle is open
SetProperty(op, h, p, native) ==
    /\ dev[h] \in {"open", "closed"}
    /\ lastOp' = [op |-> op, handle |-> h, prop |-> p,
                  rc |-> IF dev[h] = "closed" THEN ClosedResult(native) ELSE native]
    /\ UNCHANGED <<errorMessages, theContext, last, memo, dev, devCtx, modulation>>

SetPropertyInt(h, p, native) == SetProperty("SetPropertyInt", h, p, native)

SetPropertyBool(h, p, native) == SetProperty("SetPropertyBool", h, p, native)

\* Close: releases the native resource; the handle is invalid from then on
Close(h) ==
    /\ dev[h] \in {"open", "closed"}
    /\ dev' = [dev EXCEPT ![h] = "closed"]
    /\ lastOp' = [op |-> "Close", handle |-> h, prop |-> 0,
                  rc |-> IF dev[h] = "closed" THEN ClosedResult(SUCCESS) ELSE SUCCESS]
    /\ UNCHANGED <<errorMessages, theContext, last, memo, devCtx, modulation>>

\* the caller fills a Modulation from the supplied constants
SetModulation(t, b) ==
    /\ modulation' = [Type |-> t, BaudRate |-> b]
    /\ UNCHANGED <<errorMessages, theContext, last, memo, dev, devCtx, lastOp>>

\* the caller looks up the description of a code the package declares
DescribeDeclared(i) == ErrorCall((<<SUCCESS>> \o DeclaredFailureCodes)[i], FALSE)

----------------------------------------------------------------------------
(* Specifications.                                                         *)

Init ==
    /\ errorMessages = errorMessagesInit
    /\ theContext = theContextInit
    /\ last = NoCall
    /\ memo = NoMemo
    /\ dev = [h \in Handles |-> "unused"]
    /\ devCtx = [h \in Handles |-> NilPtr]
    /\ lastOp = NoOp
    /\ modulation = ModulationZero

DoOpenBegin == \E h \in Handles : OpenBegin(h)
DoOpenEnd == \E h \in Handles, native \in NativeResults : OpenEnd(h, native)
DoSetPropertyInt ==
    \E h \in Handles, p \in Properties, native \in NativeResults :
        SetPropertyInt(h, p, native)
DoSetPropertyBool ==
    \E h \in Handles, p \in Properties, native \in NativeResults :
        SetPropertyBool(h, p, native)
DoClose == \E h \in Handles : Close(h)
DoSetModulation == \E t \in ModulationTypes, b \in BaudRates : SetModulation(t, b)
DoDescribeDeclared ==
    \E i \in 1..(Len(DeclaredFailureCodes) + 1) : DescribeDeclared(i)

\* lookups of arbitrary integer codes
NextError == Describe

\* the device handle lifecycle
NextDevice ==
    \/ DoOpenBegin
    \/ DoOpenEnd
    \/ DoSetPropertyInt
    \/ DoSetPropertyBool
    \/ DoClose

\* the caller's use of the declared constants
NextConfig ==
    \/ DoSetModulation
    \/ DoDescribeDeclared

Next == NextError \/ NextDevice \/ NextConfig

Spec == Init /\ [][NextError]_vars

SpecDevice == Init /\ [][NextDevice]_vars

SpecConfig == Init /\ [][NextConfig]_vars

----------------------------------------------------------------------------
(* Reading a description back, independently of how it was produced.       *)

DigitChars == {"0", "1", "2", "3", "4", "5", "6", "7", "8", "9"}

CharAt(s, i) == SubSeq(s, i, i)

DigitValue(ch) == CHOOSE d \in 0..9 : Digit(d) = ch

AllDigits(s) == Len(s) > 0 /\ \A i \in 1..Len(s) : CharAt(s, i) \in DigitChars

RECURSIVE ParseUint(_)
ParseUint(s) ==
    IF Len(s) = 0 THEN 0
    ELSE ParseUint(SubSeq(s, 1, Len(s) - 1)) * 10 + DigitValue(CharAt(s, Len(s)))

\* s is the signed decimal rendering of an integer: digits without a leading
\* zero, preceded by "-" exactly when the integer is negative
IsSignedDecimal(s) ==
    LET neg  == Len(s) > 0 /\ CharAt(s, 1) = "-"
        body == IF neg THEN SubSeq(s, 2, Len(s)) ELSE s
    IN  /\ AllDigits(body)
        /\ (Len(body) > 1 => CharAt(body, 1) # "0")
        /\ (neg => body # "0")

SignedDecimalValue(s) ==
    IF CharAt(s, 1) = "-" THEN 0 - ParseUint(SubSeq(s, 2, Len(s))) ELSE ParseUint(s)

\* s has the generated form "Error <N>"
IsFallbackForm(s) ==
    /\ Len(s) > 6
    /\ SubSeq(s, 1, 6) = "Error "
    /\ IsSignedDecimal(SubSeq(s, 7, Len(s)))

FallbackCode(s) == SignedDecimalValue(SubSeq(s, 7, Len(s)))

StrictlyIncreasing(seq) == \A i \in 1..(Len(seq) - 1) : seq[i] < seq[i + 1]

----------------------------------------------------------------------------
(* Properties.                                                             *)

\* C1: for each of the 13 declared failure codes, Error(code).Error() returns
\* that code's entry of the error message table and never the generated
\* "Error <N>" form.
C1_DeclaredCodesHaveCanonicalMessage ==
    (last.called /\ \E i \in 1..Len(DeclaredFailureCodes) : DeclaredFailureCodes[i] = last.code)
        => /\ last.code \in DOMAIN errorMessages
           /\ last.result = errorMessages[last.code]
           /\ ~IsFallbackForm(last.result)

\* C2: for a code that is no key of the table the result is "Error " followed
\* by the signed decimal rendering of the code; for every code the result is
\* either the table entry verbatim or that form.
C2_UnknownCodeFallsBack ==
    last.called =>
        IF last.code \in DOMAIN errorMessages
        THEN last.result = errorMessages[last.code]
        ELSE /\ IsFallbackForm(last.result)
             /\ FallbackCode(last.result) = last.code

C2_Witness ==
    /\ last.called
    /\ last.code = -999
    /\ last.result = "Error -999"

\* C3: Error(SUCCESS).Error() is "Success", not "Error 0"; SUCCESS is 0 and no
\* declared failure code is 0, so code = 0 tells success from every failure.
C3_SuccessIsDescribed ==
    /\ SUCCESS = 0
    /\ \A i \in 1..Len(DeclaredFailureCodes) : DeclaredFailureCodes[i] # 0
    /\ (last.called /\ last.code = 0) => last.result = "Success"
    /\ (last.called /\ last.result = "Success") => last.code = 0

C3_Witness ==
    /\ last.called
    /\ last.code = SUCCESS
    /\ last.result = "Success"
    /\ ~IsFallbackForm(last.result)

\* C4: the declared codes have the values 0, -1 .. -8, -10, -20, -30, -80, -90;
\* they are pairwise distinct and every failure code is negative.
C4_ErrorCodeValues ==
    /\ SUCCESS = 0
    /\ DeclaredFailureCodes = <<-1, -2, -3, -4, -5, -6, -7, -8, -10, -20, -30, -80, -90>>
    /\ \A i, j \in 1..Len(DeclaredFailureCodes) :
          i # j => DeclaredFailureCodes[i] # DeclaredFailureCodes[j]
    /\ \A i \in 1..Len(DeclaredFailureCodes) : DeclaredFailureCodes[i] < 0
    /\ last.called =>
          last.code \in {0, -1, -2, -3, -4, -5, -6, -7, -8, -10, -20, -30, -80, -90}

C4_Witness ==
    /\ last.called
    /\ last.code = ETGRELEASED
    /\ last.code = -10
    /\ last.result = "Target Released"

\* C5: within the property identifiers, the modulation types and the baud
\* rates no value occurs twice, and the values increase strictly in the order
\* of declaration.
C5_GroupsDistinctAndOrdered ==
    /\ StrictlyIncreasing(
          << TIMEOUT_COMMAND, TIMEOUT_ATR, TIMEOUT_COM, HANDLE_CRC, HANDLE_PARITY,
             ACTIVATE_FIELD, ACTIVATE_CRYPTO1, INFINITE_SELECT, ACCEPT_INVALID_FRAMES,
             ACCEPT_MULTIPLE_FRAMES, AUTO_ISO14443_4, EASY_FRAMING, FORCE_ISO14443_A,
             FORCE_ISO14443_B, FORCE_SPEED_106 >>)
    /\ StrictlyIncreasing(
          << ISO14443A, JEWEL, ISO14443B, ISO14443BI, ISO14443B2SR, ISO14443B2CT,
             FELICA, DEP >>)
    /\ StrictlyIncreasing(<< NBR_106, NBR_212, NBR_424, NBR_847 >>)
    /\ Cardinality(Properties) = 15
    /\ Cardinality(ModulationTypes) = 8
    /\ Cardinality(BaudRates) = 4
    /\ (lastOp.op \in {"SetPropertyInt", "SetPropertyBool"} /\ lastOp.prop # FORCE_SPEED_106)
          => lastOp.prop < FORCE_SPEED_106

C5_Witness ==
    /\ lastOp.op = "SetPropertyInt"
    /\ lastOp.prop = FORCE_SPEED_106
    /\ lastOp.prop > FORCE_ISO14443_B
    /\ lastOp.rc = SUCCESS

\* C6: the global context is never nil, and every device-open call, whether
\* it follows or overlaps another, acquired the instance the global handle
\* still refers to.
C6_SingleContext ==
    /\ theContext # NilPtr
    /\ \A h \in Handles : dev[h] # "unused" => devCtx[h] = theContext
    /\ \A g, h \in Handles :
          (dev[g] # "unused" /\ dev[h] # "unused") => devCtx[g] = devCtx[h]

C6_Witness ==
    \E g, h \in Handles :
        /\ g # h
        /\ dev[g] = "open"
        /\ dev[h] = "opening"
        /\ devCtx[g] = devCtx[h]
        /\ devCtx[g] # NilPtr

\* C7: once a handle is closed it stays closed, and every operation on it
\* from then on returns ENOTSUCHDEV.
C7_ClosedHandleStaysInvalid ==
    [][\A h \in Handles :
          dev[h] = "closed" =>
              /\ dev'[h] = "closed"
              /\ (lastOp' # lastOp /\ lastOp'.handle = h) => lastOp'.rc = ENOTSUCHDEV]_vars

C7_Witness ==
    \E h \in Handles :
        /\ dev[h] = "closed"
        /\ lastOp.handle = h
        /\ lastOp.op = "SetPropertyBool"
        /\ lastOp.rc = ENOTSUCHDEV

\* C8: Error() leaves the table with the keys and values it had at
\* initialization, and a code looked up again yields the string it yielded
\* before, whatever was looked up in between.
C8_LookupHasNoEffect ==
    /\ DOMAIN errorMessages = {0, -1, -2, -3, -4, -5, -6, -7, -8, -10, -20, -30, -90}
    /\ errorMessages = errorMessagesInit
    /\ (memo.called /\ last.called /\ memo.code = last.code) => memo.result = last.result

C8_Witness ==
    /\ memo.called
    /\ memo.between
    /\ last.called
    /\ last.code = memo.code
    /\ last.code \notin DOMAIN errorMessages
    /\ last.result = memo.result

\* C9: the modulation types are 1..8 and the baud rates 1..4, all positive, so
\* the zero value of a Modulation field is none of them; TARGET is 0 and
\* INITIATOR is 1.
C9_EnumerantsPositive ==
    /\ << ISO14443A, JEWEL, ISO14443B, ISO14443BI, ISO14443B2SR, ISO14443B2CT,
          FELICA, DEP >> = << 1, 2, 3, 4, 5, 6, 7, 8 >>
    /\ << NBR_106, NBR_212, NBR_424, NBR_847 >> = << 1, 2, 3, 4 >>
    /\ ModulationZero.Type \notin ModulationTypes
    /\ ModulationZero.BaudRate \notin BaudRates
    /\ TARGET = 0
    /\ INITIATOR = 1
    /\ \/ modulation = ModulationZero
       \/ /\ modulation.Type \in 1..8
          /\ modulation.BaudRate \in 1..4

C9_Witness ==
    /\ modulation # ModulationZero
    /\ modulation.Type = DEP
    /\ modulation.BaudRate = NBR_847

\* C10: no table entry is empty or of the form "Error <N>"; hence the
\* generated form is returned exactly for the codes that are no key of the
\* table, and the result is never empty.
C10_EmptyTestIsPresenceTest ==
    /\ \A k \in DOMAIN errorMessages :
          /\ errorMessages[k] # ""
          /\ ~IsFallbackForm(errorMessages[k])
    /\ last.called =>
          /\ last.result # ""
          /\ IsFallbackForm(last.result) <=> last.code \notin DOMAIN errorMessages

C10_Witness ==
    /\ last.called
    /\ last.code = -11
    /\ last.code \notin DOMAIN errorMessages
    /\ IsFallbackForm(last.result)

====
